---- MODULE Spec2Model ----
(***************************************************************************)
(* Model of the two training drivers of nnabla-examples:                   *)
(*   distributed/cifar10-100/multi_device_multi_process_classification.py  *)
(*   reduction/cifar10/distillation/distillation.py                        *)
(*                                                                         *)
(* Spec       : the multi-process training run (one process per rank).     *)
(* FairSpec   : the same run, every process and collective progressing.    *)
(* SpecDistil : the single-process distillation run.                       *)
(*                                                                         *)
(* Floats are modelled exactly: a learning rate is a rational <<num, den>>,*)
(* a validation error is a number of tenths, int(a / b) of positive        *)
(* operands is a \div b.                                                   *)
(***************************************************************************)
EXTENDS Integers, Sequences, FiniteSets

VARIABLES
    args,                \* parsed command line (get_args())
    n_devices,           \* comm.size
    prior_files,         \* history: the checkpoint files found at startup
    files,               \* checkpoint_*.json files in model_save_path
    writes,              \* history: every file write / monitor entry <<rank, file, idx>>
    pc,                  \* per rank: position in train()
    start_point,         \* per rank
    i,                   \* per rank: loop counter
    j,                   \* per rank: validation slice start
    k,                   \* per rank: number of validation batches counted
    ve_local,            \* per rank: the slices whose error was summed into ve_local
    dropped,             \* history, per rank: slices skipped by `continue` in this pass
    model_save_interval, \* per rank
    lr,                  \* per rank: solver learning rate
    lr_loaded,           \* history, per rank: learning rate when the loop was entered
    steps,               \* history, per rank: completed training steps
    iters,               \* history, per rank: values taken by the loop counter
    vals,                \* history, per rank: iterations at which validation ran
    calls,               \* history, per rank: blocking collective calls entered
    d                    \* state of the distillation run (see SpecDistil)

distVars == <<args, n_devices, prior_files, files, writes, pc, start_point, i, j, k, ve_local,
              dropped, model_save_interval, lr, lr_loaded, steps, iters, vals, calls>>
vars == <<args, n_devices, prior_files, files, writes, pc, start_point, i, j, k, ve_local,
          dropped, model_save_interval, lr, lr_loaded, steps, iters, vals, calls, d>>

---------------------------------------------------------------------------
(* Bounds of the model and the input sets.                                 *)

MaxDevices == 2

n_train_samples == 50000
n_valid_samples == 10000

BatchSizes == {3000, 5000, 6000}
MaxIters == {7, 20}
WarmupEpochs == {1, 2}
ModelSaveIntervals == {4, 20}
LearningRates == {<<1, 10>>}

---------------------------------------------------------------------------
(* Exact arithmetic.                                                       *)

\* a rational is <<numerator, denominator>>, compared by cross-multiplication
RatEq(a, b) == a[1] * b[2] = b[1] * a[2]
RatAdd(a, b) == <<a[1] * b[2] + b[1] * a[2], a[2] * b[2]>>
RatScale(a, n) == <<a[1] * n, a[2]>>
RatOver(a, n) == <<a[1], a[2] * n>>

SetMax(S) == CHOOSE x \in S : \A y \in S : y <= x

---------------------------------------------------------------------------
(* File names: the decimal digits between "checkpoint_" and ".json".       *)

RECURSIVE ToDigits(_)
ToDigits(n) == IF n < 10 THEN <<n>> ELSE Append(ToDigits(n \div 10), n % 10)

RECURSIVE ParseInt(_)
ParseInt(s) ==
    IF Len(s) = 0 THEN 0
    ELSE ParseInt(SubSeq(s, 1, Len(s) - 1)) * 10 + s[Len(s)]

\* s sorts before t as a string (used by the variant LatestIndexLexical)
RECURSIVE StrLess(_, _)
StrLess(s, t) ==
    IF Len(t) = 0 THEN FALSE
    ELSE IF Len(s) = 0 THEN TRUE
    ELSE IF s[1] # t[1] THEN s[1] < t[1]
    ELSE StrLess(Tail(s), Tail(t))

---------------------------------------------------------------------------
(* Quantities train() derives from the arguments.                          *)

Ranks == 0 .. (n_devices - 1)
bs_valid == args.batch_size
base_lr == args.learning_rate
ValInterval == n_train_samples \div (args.batch_size * n_devices)
warmup_iter == ValInterval * args.warmup_epoch
warmup_slope == RatOver(RatScale(base_lr, n_devices - 1), warmup_iter)
LoopEnd == args.max_iter \div n_devices
PartLo(r) == (n_valid_samples * r) \div n_devices
PartHi(r) == (n_valid_samples * (r + 1)) \div n_devices
SaveEvery == args.model_save_interval \div n_devices

---------------------------------------------------------------------------
(* The checkpoint directory.  A checkpoint file is named by its index and  *)
(* records the iteration and the solver state (the learning rate) saved.   *)

LrAt(m) == RatAdd(base_lr, RatScale(warmup_slope, m))

\* the learning rate the solver holds when iteration idx saves its checkpoint
LrWhenSaved(idx) ==
    IF idx = 0 THEN base_lr
    ELSE LrAt(IF idx - 1 <= warmup_iter THEN idx - 1 ELSE warmup_iter)

CheckpointFile(idx, rate) ==
    [name |-> ToDigits(idx), current_iter |-> idx, lr |-> rate]

\* variant: max over the names as strings
LatestIndexLexical(fs) ==
    ParseInt((CHOOSE f \in fs : \A g \in fs : g.name = f.name \/ StrLess(g.name, f.name)).name)

\* glob + re.sub + int + max: the highest index among the file names
LatestIndex(fs) == SetMax({ParseInt(f.name) : f \in fs})

\* load_checkpoint(path, solver): the file of that name
load_checkpoint(idx) == CHOOSE f \in files : f.name = ToDigits(idx)

\* variant: the checkpoint is looked up under the rank-0 guard
UsesCheckpointRankZeroOnly(r) == args.use_latest_checkpoint /\ r = 0 /\ files # {}

\* lines 131-133
UsesCheckpoint(r) == args.use_latest_checkpoint /\ files # {}

---------------------------------------------------------------------------
(* Guards of train().                                                      *)

\* variant: the rank guard left out
IsWriterAnyRank(mpi_rank) == TRUE

IsWriter(mpi_rank) == mpi_rank = 0

RunsValidation(iter) == iter % ValInterval = 0

\* variant: the bound without the division by n_devices
InLoopMaxIter(iter) == iter < args.max_iter

InLoop(iter) == iter < LoopEnd

\* variant: i < warmup_iter
InWarmupStrict(iter) == iter < warmup_iter

InWarmup(iter) == iter <= warmup_iter

\* val_images[j:j + bs_valid]: the positions [lo, hi) of the slice
Slice(lo) ==
    <<lo, IF lo + bs_valid <= n_valid_samples THEN lo + bs_valid ELSE n_valid_samples>>

SliceLen(s) == s[2] - s[1]

\* variant: the length test left out
IsFullBatchAlways(s) == TRUE

IsFullBatch(s) == SliceLen(s) = bs_valid

---------------------------------------------------------------------------
(* Initial state: nothing launched.  Launch is mpirun starting n_devices   *)
(* processes, each running train() up to solver.set_learning_rate(base_lr) *)
(* (lines 72-127), in a directory holding the checkpoints that earlier     *)
(* runs of the same configuration left behind.                             *)

PriorCheckpointSets == {{}, {1}, {1, 2}}

NoArgs == [batch_size |-> 0]

DistilIdle == [pc |-> "idle"]

DistIdle ==
    /\ n_devices = 0
    /\ args = NoArgs
    /\ prior_files = {}
    /\ files = {}
    /\ writes = {}
    /\ pc = <<>>
    /\ start_point = <<>>
    /\ i = <<>>
    /\ j = <<>>
    /\ k = <<>>
    /\ ve_local = <<>>
    /\ dropped = <<>>
    /\ model_save_interval = <<>>
    /\ lr = <<>>
    /\ lr_loaded = <<>>
    /\ steps = <<>>
    /\ iters = <<>>
    /\ vals = <<>>
    /\ calls = <<>>

Init == DistIdle /\ d = DistilIdle

Launch ==
    /\ n_devices = 0
    /\ n_devices' \in 1 .. MaxDevices
    /\ args' \in [batch_size : BatchSizes, max_iter : MaxIters,
                  warmup_epoch : WarmupEpochs,
                  model_save_interval : ModelSaveIntervals,
                  learning_rate : LearningRates,
                  use_latest_checkpoint : BOOLEAN]
    /\ \E m \in PriorCheckpointSets :
          files' = {CheckpointFile(x * ValInterval, LrWhenSaved(x * ValInterval)) : x \in m}'
    /\ prior_files' = files'
    /\ writes' = {}
    /\ pc' = [r \in Ranks' |-> "load"]
    /\ start_point' = [r \in Ranks' |-> 0]
    /\ i' = [r \in Ranks' |-> 0]
    /\ j' = [r \in Ranks' |-> 0]
    /\ k' = [r \in Ranks' |-> 0]
    /\ ve_local' = [r \in Ranks' |-> {}]
    /\ dropped' = [r \in Ranks' |-> {}]
    /\ model_save_interval' = [r \in Ranks' |-> 0]
    /\ lr' = [r \in Ranks' |-> base_lr']
    /\ lr_loaded' = [r \in Ranks' |-> base_lr']
    /\ steps' = [r \in Ranks' |-> 0]
    /\ iters' = [r \in Ranks' |-> <<>>]
    /\ vals' = [r \in Ranks' |-> {}]
    /\ calls' = [r \in Ranks' |-> <<>>]
    /\ UNCHANGED d

---------------------------------------------------------------------------
(* train(): one action per step of a rank, one per collective.             *)

Enter(r, call) == calls' = [calls EXCEPT ![r] = Append(@, call)]

\* lines 129-138: glob the checkpoints, load the latest
LoadCheckpoint(r) ==
    /\ pc[r] = "load"
    /\ \/ /\ UsesCheckpoint(r)
          /\ LET f == load_checkpoint(LatestIndex(files))
             IN /\ start_point' = [start_point EXCEPT ![r] = f.current_iter]
                /\ i' = [i EXCEPT ![r] = f.current_iter]
                /\ lr' = [lr EXCEPT ![r] = f.lr]
                /\ lr_loaded' = [lr_loaded EXCEPT ![r] = f.lr]
       \/ /\ ~UsesCheckpoint(r)
          /\ UNCHANGED <<start_point, i, lr, lr_loaded>>
    /\ IF r = 0
       THEN pc' = [pc EXCEPT ![r] = "prepare"] /\ UNCHANGED calls
       ELSE pc' = [pc EXCEPT ![r] = "barrier_data"] /\ Enter(r, "barrier")
    /\ UNCHANGED <<args, n_devices, prior_files, files, writes, j, k, ve_local, dropped,
                   model_save_interval, steps, iters, vals, d>>

\* lines 157-160 (rank 0, before the barrier) and 166-169 (the others, after it)
PrepareData(r) ==
    /\ pc[r] = "prepare"
    /\ IF r = 0
       THEN pc' = [pc EXCEPT ![r] = "barrier_data"] /\ Enter(r, "barrier")
       ELSE pc' = [pc EXCEPT ![r] = "loop"] /\ UNCHANGED calls
    /\ UNCHANGED <<args, n_devices, prior_files, files, writes, start_point, i, j, k, ve_local,
                   dropped, model_save_interval, lr, lr_loaded, steps, iters, vals, d>>

\* line 163: comm.barrier() returns once every rank has entered it
DataBarrier ==
    /\ n_devices > 0
    /\ \A r \in Ranks : pc[r] = "barrier_data"
    /\ pc' = [r \in Ranks |-> IF r = 0 THEN "loop" ELSE "prepare"]
    /\ UNCHANGED <<args, n_devices, prior_files, files, writes, start_point, i, j, k, ve_local,
                   dropped, model_save_interval, lr, lr_loaded, steps, iters, vals,
                   calls, d>>

\* lines 176-183: the loop test, and the start of a validation pass
LoopHead(r) ==
    /\ pc[r] = "loop"
    /\ \/ /\ InLoop(i[r])
          /\ RunsValidation(i[r])
          /\ iters' = [iters EXCEPT ![r] = Append(@, i[r])]
          /\ vals' = [vals EXCEPT ![r] = @ \cup {i[r]}]
          /\ ve_local' = [ve_local EXCEPT ![r] = {}]
          /\ dropped' = [dropped EXCEPT ![r] = {}]
          /\ k' = [k EXCEPT ![r] = 0]
          /\ j' = [j EXCEPT ![r] = PartLo(r)]
          /\ pc' = [pc EXCEPT ![r] = "validate"]
       \/ /\ InLoop(i[r])
          /\ ~RunsValidation(i[r])
          /\ iters' = [iters EXCEPT ![r] = Append(@, i[r])]
          /\ pc' = [pc EXCEPT ![r] = "train"]
          /\ UNCHANGED <<vals, ve_local, dropped, k, j>>
       \/ /\ ~InLoop(i[r])
          /\ pc' = [pc EXCEPT ![r] = "final_save"]
          /\ UNCHANGED <<iters, vals, ve_local, dropped, k, j>>
    /\ UNCHANGED <<args, n_devices, prior_files, files, writes, start_point, i,
                   model_save_interval, lr, lr_loaded, steps, calls, d>>

\* lines 184-195: one slice of the rank's range
ValidateBatch(r) ==
    /\ pc[r] = "validate"
    /\ j[r] < PartHi(r)
    /\ LET image == Slice(j[r])
       IN \/ /\ ~IsFullBatch(image)
             /\ dropped' = [dropped EXCEPT ![r] = @ \cup {image}]
             /\ UNCHANGED <<ve_local, k>>
          \/ /\ IsFullBatch(image)
             /\ ve_local' = [ve_local EXCEPT ![r] = @ \cup {image}]
             /\ k' = [k EXCEPT ![r] = @ + 1]
             /\ UNCHANGED dropped
    /\ j' = [j EXCEPT ![r] = @ + bs_valid]
    /\ UNCHANGED <<args, n_devices, prior_files, files, writes, pc, start_point, i,
                   model_save_interval, lr, lr_loaded, steps, iters, vals, calls, d>>

\* lines 196-198: ve_local /= k (ZeroDivisionError when k = 0), then the all-reduce
ValidateEnd(r) ==
    /\ pc[r] = "validate"
    /\ j[r] >= PartHi(r)
    /\ \/ /\ k[r] = 0
          /\ pc' = [pc EXCEPT ![r] = "crashed"]
          /\ UNCHANGED calls
       \/ /\ k[r] # 0
          /\ pc' = [pc EXCEPT ![r] = "reduce_ve"]
          /\ Enter(r, "all_reduce_ve")
    /\ UNCHANGED <<args, n_devices, prior_files, files, writes, start_point, i, j, k, ve_local,
                   dropped, model_save_interval, lr, lr_loaded, steps, iters, vals, d>>

\* line 198: comm.all_reduce(ve.data) returns once every rank has entered it
AllReduceVe ==
    /\ n_devices > 0
    /\ \A r \in Ranks : pc[r] = "reduce_ve"
    /\ pc' = [r \in Ranks |-> "save"]
    /\ UNCHANGED <<args, n_devices, prior_files, files, writes, start_point, i, j, k, ve_local,
                   dropped, model_save_interval, lr, lr_loaded, steps, iters, vals,
                   calls, d>>

\* lines 200-209
SaveModel(r) ==
    /\ pc[r] = "save"
    /\ \/ /\ IsWriter(r)
          /\ model_save_interval[r] <= 0
          /\ writes' = writes \cup {<<r, "Validation-error", 0>>,
                                    <<r, "Validation-time", 0>>,
                                    <<r, "params", i[r]>>,
                                    <<r, "checkpoint", i[r]>>}
          /\ files' = {f \in files : f.name # ToDigits(i[r])}
                          \cup {CheckpointFile(i[r], lr[r])}
          /\ model_save_interval' = [model_save_interval EXCEPT ![r] = @ + SaveEvery]
       \/ /\ IsWriter(r)
          /\ model_save_interval[r] > 0
          /\ writes' = writes \cup {<<r, "Validation-error", 0>>,
                                    <<r, "Validation-time", 0>>}
          /\ UNCHANGED <<files, model_save_interval>>
       \/ /\ ~IsWriter(r)
          /\ UNCHANGED <<writes, files, model_save_interval>>
    /\ pc' = [pc EXCEPT ![r] = "train"]
    /\ UNCHANGED <<args, n_devices, prior_files, start_point, i, j, k, ve_local, dropped,
                   lr, lr_loaded, steps, iters, vals, calls, d>>

\* lines 210-221 and 37-45: forward, zero_grad, backward, entering the all-reduce
TrainStep(r) ==
    /\ pc[r] = "train"
    /\ model_save_interval' = [model_save_interval EXCEPT ![r] = @ - 1]
    /\ pc' = [pc EXCEPT ![r] = "reduce_grad"]
    /\ Enter(r, "all_reduce_grad")
    /\ UNCHANGED <<args, n_devices, prior_files, files, writes, start_point, i, j, k, ve_local,
                   dropped, lr, lr_loaded, steps, iters, vals, d>>

\* lines 42/45: the gradient all-reduce returns once every rank has entered it
AllReduceGrad ==
    /\ n_devices > 0
    /\ \A r \in Ranks : pc[r] = "reduce_grad"
    /\ pc' = [r \in Ranks |-> "update"]
    /\ UNCHANGED <<args, n_devices, prior_files, files, writes, start_point, i, j, k, ve_local,
                   dropped, model_save_interval, lr, lr_loaded, steps, iters, vals,
                   calls, d>>

\* lines 223-229: solver.update() and the linear warmup
UpdateWarmup(r) ==
    /\ pc[r] = "update"
    /\ steps' = [steps EXCEPT ![r] = @ + 1]
    /\ \/ /\ InWarmup(i[r])
          /\ lr' = [lr EXCEPT ![r] = LrAt(i[r])]
       \/ /\ ~InWarmup(i[r])
          /\ UNCHANGED lr
    /\ pc' = [pc EXCEPT ![r] = "monitor"]
    /\ UNCHANGED <<args, n_devices, prior_files, files, writes, start_point, i, j, k, ve_local,
                   dropped, model_save_interval, lr_loaded, iters, vals, calls, d>>

\* lines 231-234, and the loop's increment
MonitorTrain(r) ==
    /\ pc[r] = "monitor"
    /\ \/ /\ IsWriter(r)
          /\ writes' = writes \cup {<<r, "Training-loss", 0>>,
                                    <<r, "Training-error", 0>>,
                                    <<r, "Training-time", 0>>}
       \/ /\ ~IsWriter(r)
          /\ UNCHANGED writes
    /\ i' = [i EXCEPT ![r] = @ + 1]
    /\ pc' = [pc EXCEPT ![r] = "loop"]
    /\ UNCHANGED <<args, n_devices, prior_files, files, start_point, j, k, ve_local, dropped,
                   model_save_interval, lr, lr_loaded, steps, iters, vals, calls, d>>

\* lines 238-242: the final parameter file, entering the final barrier
FinalSave(r) ==
    /\ pc[r] = "final_save"
    /\ \/ /\ IsWriter(r)
          /\ writes' = writes \cup {<<r, "params", LoopEnd>>}
       \/ /\ ~IsWriter(r)
          /\ UNCHANGED writes
    /\ pc' = [pc EXCEPT ![r] = "barrier_final"]
    /\ Enter(r, "barrier")
    /\ UNCHANGED <<args, n_devices, prior_files, files, start_point, i, j, k, ve_local, dropped,
                   model_save_interval, lr, lr_loaded, steps, iters, vals, d>>

\* line 242: comm.barrier() returns once every rank has entered it
FinalBarrier ==
    /\ n_devices > 0
    /\ \A r \in Ranks : pc[r] = "barrier_final"
    /\ pc' = [r \in Ranks |-> "done"]
    /\ UNCHANGED <<args, n_devices, prior_files, files, writes, start_point, i, j, k, ve_local,
                   dropped, model_save_interval, lr, lr_loaded, steps, iters, vals,
                   calls, d>>

RankStep(r) ==
    \/ LoadCheckpoint(r)
    \/ PrepareData(r)
    \/ LoopHead(r)
    \/ ValidateBatch(r)
    \/ ValidateEnd(r)
    \/ SaveModel(r)
    \/ TrainStep(r)
    \/ UpdateWarmup(r)
    \/ MonitorTrain(r)
    \/ FinalSave(r)

Collective == DataBarrier \/ AllReduceVe \/ AllReduceGrad \/ FinalBarrier

Next ==
    \/ Launch
    \/ \E r \in Ranks : LoadCheckpoint(r)
    \/ \E r \in Ranks : PrepareData(r)
    \/ DataBarrier
    \/ \E r \in Ranks : LoopHead(r)
    \/ \E r \in Ranks : ValidateBatch(r)
    \/ \E r \in Ranks : ValidateEnd(r)
    \/ AllReduceVe
    \/ \E r \in Ranks : SaveModel(r)
    \/ \E r \in Ranks : TrainStep(r)
    \/ AllReduceGrad
    \/ \E r \in Ranks : UpdateWarmup(r)
    \/ \E r \in Ranks : MonitorTrain(r)
    \/ \E r \in Ranks : FinalSave(r)
    \/ FinalBarrier

Spec == Init /\ [][Next]_vars

\* every process keeps running, and a collective every rank has entered returns
FairSpec ==
    /\ Spec
    /\ \A r \in 0 .. (MaxDevices - 1) : WF_vars(r \in Ranks /\ RankStep(r))
    /\ WF_vars(Collective)

---------------------------------------------------------------------------
(* Claims about the distributed run.                                       *)

AfterLoop(r) == pc[r] \in {"final_save", "barrier_final", "done"}
AllDone == n_devices > 0 /\ \A r \in Ranks : pc[r] = "done"
AnyCrashed == \E r \in Ranks : pc[r] = "crashed"
Counting(lo, n) == [x \in 1 .. n |-> lo + x - 1]

\* C1: a rank that started at start_point = 0 and left the loop has executed
\* exactly int(max_iter / n_devices) training steps (10 for 2 ranks and
\* max_iter = 20), never more on the way, and it ran a validation pass at an
\* iteration i iff i % int(n_train_samples / batch_size / n_devices) = 0.
C1_StepsAndValidation ==
    \A r \in Ranks :
        start_point[r] = 0 =>
            /\ steps[r] <= args.max_iter \div n_devices
            /\ AfterLoop(r) => steps[r] = args.max_iter \div n_devices
            /\ AfterLoop(r) /\ n_devices = 2 /\ args.max_iter = 20 => steps[r] = 10
            /\ \A x \in 1 .. Len(iters[r]) :
                  iters[r][x] \in vals[r] <=>
                      iters[r][x] % (n_train_samples \div (args.batch_size * n_devices)) = 0

C1_Witness ==
    \E r \in Ranks :
        /\ n_devices = 2 /\ args.max_iter = 20 /\ start_point[r] = 0
        /\ pc[r] = "done" /\ steps[r] = 10
        /\ Cardinality(vals[r]) = 2 /\ Len(iters[r]) = 10

\* C2: every write to the model-save directory and every monitor entry is made
\* by rank 0, so no file is written by two ranks.
C2_OnlyRankZeroWrites ==
    /\ \A w \in writes : w[1] = 0
    /\ \A w1, w2 \in writes : (w1[2] = w2[2] /\ w1[3] = w2[3]) => w1[1] = w2[1]

C2_Witness ==
    /\ n_devices >= 2 /\ AllDone
    /\ \E x \in 0 .. 20 : <<0, "checkpoint", x>> \in writes /\ <<0, "params", x>> \in writes
    /\ <<0, "params", args.max_iter \div n_devices>> \in writes
    /\ <<0, "Training-loss", 0>> \in writes
    /\ <<0, "Validation-error", 0>> \in writes

\* C3 as stated: after the warmup step of iteration i the learning rate is
\* base_lr + warmup_slope * i when i <= warmup_iter and base_lr when i > warmup_iter.
C3_Original ==
    \A r \in Ranks :
        pc[r] = "monitor" =>
            /\ i[r] <= warmup_iter => RatEq(lr[r], RatAdd(base_lr, RatScale(warmup_slope, i[r])))
            /\ i[r] > warmup_iter => RatEq(lr[r], base_lr)

\* C3 amended: after the warmup step of iteration i the learning rate is
\* base_lr + warmup_slope * i when i <= warmup_iter; when i > warmup_iter the step
\* leaves it as it was, which is base_lr + warmup_slope * warmup_iter, that is
\* base_lr * n_devices, in a run that entered the loop at start_point <= warmup_iter
\* and the rate the loop was entered with otherwise.
C3_WarmupRate ==
    \A r \in Ranks :
        pc[r] = "monitor" =>
            /\ i[r] <= warmup_iter => RatEq(lr[r], RatAdd(base_lr, RatScale(warmup_slope, i[r])))
            /\ i[r] > warmup_iter /\ start_point[r] <= warmup_iter =>
                  /\ RatEq(lr[r], RatAdd(base_lr, RatScale(warmup_slope, warmup_iter)))
                  /\ RatEq(lr[r], RatScale(base_lr, n_devices))
            /\ i[r] > warmup_iter /\ start_point[r] > warmup_iter => lr[r] = lr_loaded[r]

C3_Witness ==
    \E r \in Ranks :
        /\ pc[r] = "monitor" /\ n_devices = 2 /\ start_point[r] = 0
        /\ i[r] > warmup_iter
        /\ RatEq(lr[r], RatScale(base_lr, 2)) /\ ~RatEq(lr[r], base_lr)

\* C5: with resuming enabled and checkpoint files present at startup, the loop
\* starts at the iteration K stored in the file with the highest index in its
\* name, and the loop counter takes exactly the values K, K + 1, ...,
\* int(max_iter / n_devices) - 1.
C5_ResumeProgression ==
    \A r \in Ranks :
        (args.use_latest_checkpoint /\ prior_files # {} /\ pc[r] # "load") =>
            LET K == SetMax({f.current_iter : f \in prior_files})
                N == args.max_iter \div n_devices
            IN /\ start_point[r] = K
               /\ iters[r] = Counting(K, Len(iters[r]))
               /\ Len(iters[r]) <= (IF N > K THEN N - K ELSE 0)
               /\ AfterLoop(r) => Len(iters[r]) = (IF N > K THEN N - K ELSE 0)

C5_Witness ==
    \E r \in Ranks :
        /\ args.use_latest_checkpoint /\ Cardinality(prior_files) = 2
        /\ pc[r] = "done" /\ start_point[r] >= 10
        /\ Len(iters[r]) >= 2 /\ iters[r][1] = start_point[r]

\* C7 as stated: a rank evaluates only validation positions inside its own
\* partition [PartLo, PartHi), so no position is evaluated by two ranks.
C7_OwnPartitionOnly ==
    /\ \A r \in Ranks : \A s \in ve_local[r] : PartLo(r) <= s[1] /\ s[2] <= PartHi(r)
    /\ \A r1, r2 \in Ranks :
          (r1 # r2 /\ vals[r1] = vals[r2]) =>
              \A s1 \in ve_local[r1], s2 \in ve_local[r2] : s1[2] <= s2[1] \/ s2[2] <= s1[1]

\* C8: a validation slice shorter than bs_valid is dropped whole: it is not in
\* the sum ve_local and not counted in k, and it is not padded; only slices of
\* exactly bs_valid samples are summed and counted.
C8_ShortBatchDropped ==
    \A r \in Ranks :
        /\ \A s \in ve_local[r] : s[2] - s[1] = args.batch_size
        /\ k[r] = Cardinality(ve_local[r])
        /\ \A s \in dropped[r] : s[2] - s[1] < args.batch_size /\ s \notin ve_local[r]
        /\ pc[r] \in {"reduce_ve", "save"} =>
              Cardinality(ve_local[r]) + Cardinality(dropped[r])
                  = (PartHi(r) - PartLo(r) + args.batch_size - 1) \div args.batch_size

C8_Witness ==
    \E r \in Ranks :
        /\ pc[r] = "reduce_ve" /\ k[r] >= 1
        /\ \E s \in dropped[r] : s[2] = n_valid_samples /\ s[2] - s[1] > 0

IsPrefix(s, t) == Len(s) <= Len(t) /\ s = SubSeq(t, 1, Len(s))

SameStartPoint ==
    \A r1, r2 \in Ranks :
        (pc[r1] # "load" /\ pc[r2] # "load") => start_point[r1] = start_point[r2]

NoScanAfterCheckpointWrite ==
    (\E r \in Ranks : pc[r] = "load") => \A w \in writes : w[2] # "checkpoint"

SameCollectives ==
    \A r1, r2 \in Ranks :
        /\ IsPrefix(calls[r1], calls[r2]) \/ IsPrefix(calls[r2], calls[r1])
        /\ (pc[r1] = "done" /\ pc[r2] = "done") => calls[r1] = calls[r2]

\* C9: in a run where no process crashes, every rank resolves the same
\* start_point (no rank scans for checkpoints after rank 0 has written one), the
\* ranks enter the same sequence of collective calls, and every rank eventually
\* passes the final barrier and terminates.
C9_CollectivesMatchAndTerminate ==
    /\ [](SameStartPoint /\ NoScanAfterCheckpointWrite /\ SameCollectives)
    /\ (n_devices > 0) ~> (AllDone \/ AnyCrashed)
    /\ [](AllDone => \A r \in Ranks : calls[r][Len(calls[r])] = "barrier")

C9_Witness ==
    /\ n_devices = 2 /\ AllDone
    /\ args.use_latest_checkpoint /\ start_point[0] > 0 /\ start_point[1] = start_point[0]
    /\ \E x \in 0 .. 20 : <<0, "checkpoint", x>> \in writes
    /\ \E x \in 1 .. Len(calls[1]) : calls[1][x] = "all_reduce_ve"
    /\ Len(calls[1]) >= 5

---------------------------------------------------------------------------
(* distil(): the single-process distillation run.  Its state is the record *)
(* d; a validation error is a number of tenths (best_ve = 1.0 is 10).      *)

MaxIterDistil == 4
MaxValInterval == 2
NumParams == 2
BestVeInit == 10

ErrorValues == {0, 2, 3, 4, 5, 10}
WeightDecays == {0, 1}

teacher == "teacher"
student == "student"

\* the parameters model_prediction(..., net=scope) registers under its scope
ScopeParameters(scope) == {<<scope, n>> : n \in 1 .. NumParams}

\* nn.get_parameters() at the top level
AllParameters == ScopeParameters(teacher) \cup ScopeParameters(student)

\* variant: set_parameters outside the student scope
SolverParametersUnscoped == ScopeParameters(teacher) \cup ScopeParameters(student)

\* with nn.parameter_scope(student): solver.set_parameters(nn.get_parameters())
SolverParameters == {q \in AllParameters : q[1] = student}

\* pred_label.need_grad = False: backward stops at the teacher's output
BackwardReaches == {q \in AllParameters : q[1] = student}

\* variant: ve <= best_ve
ImprovesOrTies(ve, best_ve) == ve <= best_ve

Improves(ve, best_ve) == ve < best_ve

\* variant: best_ve not updated on save
KeepBest(ve, best_ve) == best_ve

BestAfterSave(ve, best_ve) == ve

Validates(iter, val_interval) == iter % val_interval = 0

\* lines 34-99: arguments, teacher parameters loaded, graphs and solver built
StartDistil ==
    /\ d.pc = "idle"
    /\ \E mi \in 1 .. MaxIterDistil, vi \in 1 .. MaxValInterval, wd \in WeightDecays :
          d' = [pc |-> "loop", max_iter |-> mi, val_interval |-> vi, weight_decay |-> wd,
                i |-> 0, ve |-> 0, ve_bound |-> FALSE, best_ve |-> BestVeInit,
                ves |-> <<>>, saves |-> {}, final_saved |-> FALSE,
                w |-> [q \in AllParameters |-> 0],
                loaded |-> [q \in ScopeParameters(teacher) |-> 0],
                grad |-> [q \in AllParameters |-> 0],
                solver |-> SolverParameters]
    /\ UNCHANGED distVars

\* lines 101-102: the loop test and the validation test
DistilLoopHead ==
    /\ d.pc = "loop"
    /\ \/ /\ d.i < d.max_iter
          /\ Validates(d.i, d.val_interval)
          /\ d' = [d EXCEPT !.pc = "validate"]
       \/ /\ d.i < d.max_iter
          /\ ~Validates(d.i, d.val_interval)
          /\ d' = [d EXCEPT !.pc = "compare"]
       \/ /\ d.i >= d.max_iter
          /\ d' = [d EXCEPT !.pc = "final"]
    /\ UNCHANGED distVars

\* lines 103-110: a validation pass; its mean error is any of ErrorValues
Validate ==
    /\ d.pc = "validate"
    /\ \E e \in ErrorValues :
          d' = [d EXCEPT !.ve = e, !.ve_bound = TRUE, !.ves = Append(@, e),
                         !.pc = "compare"]
    /\ UNCHANGED distVars

\* lines 111-114: reading an unbound ve raises, a better ve saves the parameters
CompareSave ==
    /\ d.pc = "compare"
    /\ \/ /\ ~d.ve_bound
          /\ d' = [d EXCEPT !.pc = "crashed"]
       \/ /\ d.ve_bound
          /\ Improves(d.ve, d.best_ve)
          /\ d' = [d EXCEPT !.saves = @ \cup {d.i},
                            !.best_ve = BestAfterSave(d.ve, d.best_ve),
                            !.pc = "zero_grad"]
       \/ /\ d.ve_bound
          /\ ~Improves(d.ve, d.best_ve)
          /\ d' = [d EXCEPT !.pc = "zero_grad"]
    /\ UNCHANGED distVars

\* line 117: solver.zero_grad()
ZeroGrad ==
    /\ d.pc = "zero_grad"
    /\ d' = [d EXCEPT !.grad = [q \in AllParameters |-> IF q \in d.solver THEN 0 ELSE @[q]],
                      !.pc = "forward"]
    /\ UNCHANGED distVars

\* line 118: loss.forward() reads the parameters of both graphs
Forward ==
    /\ d.pc = "forward"
    /\ d' = [d EXCEPT !.pc = "backward"]
    /\ UNCHANGED distVars

\* line 119: loss.backward() accumulates gradients where it reaches
Backward ==
    /\ d.pc = "backward"
    /\ d' = [d EXCEPT !.grad = [q \in AllParameters |->
                                   IF q \in BackwardReaches THEN @[q] + 1 ELSE @[q]],
                      !.pc = "weight_decay"]
    /\ UNCHANGED distVars

\* line 120: solver.weight_decay(): grad += decay * w on the solver's parameters
WeightDecay ==
    /\ d.pc = "weight_decay"
    /\ d' = [d EXCEPT !.grad = [q \in AllParameters |->
                                   IF q \in d.solver THEN @[q] + d.weight_decay ELSE @[q]],
                      !.pc = "update"]
    /\ UNCHANGED distVars

\* lines 121-125: solver.update() moves the solver's parameters by their gradient
Update ==
    /\ d.pc = "update"
    /\ d' = [d EXCEPT !.w = [q \in AllParameters |->
                                IF q \in d.solver THEN @[q] + d.grad[q] ELSE @[q]],
                      !.i = @ + 1,
                      !.pc = "loop"]
    /\ UNCHANGED distVars

\* lines 127-137: the final validation pass and the final parameter file
FinalValidateSave ==
    /\ d.pc = "final"
    /\ \E e \in ErrorValues :
          d' = [d EXCEPT !.ve = e, !.ve_bound = TRUE, !.final_saved = TRUE, !.pc = "done"]
    /\ UNCHANGED distVars

NextDistil ==
    \/ StartDistil
    \/ DistilLoopHead
    \/ Validate
    \/ CompareSave
    \/ ZeroGrad
    \/ Forward
    \/ Backward
    \/ WeightDecay
    \/ Update
    \/ FinalValidateSave

SpecDistil == Init /\ [][NextDistil]_vars

---------------------------------------------------------------------------
(* Claims about the distillation run.                                      *)

Started == d.pc # "idle"

\* the iteration of the n-th validation pass of the loop
PassIter(n) == (n - 1) * d.val_interval

\* the passes whose comparison has run
Compared == IF Started /\ d.pc = "compare" /\ d.i = PassIter(Len(d.ves))
            THEN Len(d.ves) - 1 ELSE Len(d.ves)

MinOf(S) == CHOOSE x \in S : \A y \in S : x <= y

\* C4: the parameters are saved in the loop for a validation pass iff its error
\* is below 1.0 and strictly below every earlier error; for the errors
\* 0.5, 0.3, 0.4, 0.2 they are saved at 0.5, 0.3 and 0.2 and not at 0.4; and
\* best_ve is the minimum of 1.0 and the errors compared so far.
C4_SaveIffStrictlyBetter ==
    Started =>
        /\ \A n \in 1 .. Compared :
              PassIter(n) \in d.saves <=>
                  (d.ves[n] < 10 /\ \A m \in 1 .. (n - 1) : d.ves[n] < d.ves[m])
        /\ d.best_ve = MinOf({10} \cup {d.ves[n] : n \in 1 .. Compared})
        /\ (d.ves = <<5, 3, 4, 2>> /\ Compared = 4 /\ d.val_interval = 1) =>
              d.saves = {0, 1, 3}

C4_Witness ==
    /\ Started /\ d.pc = "done" /\ d.val_interval = 1
    /\ d.ves = <<5, 3, 4, 2>> /\ d.saves = {0, 1, 3} /\ d.best_ve = 2

C10_SaveOnlyAfterValidation ==
    Started =>
        /\ d.pc # "crashed"
        /\ d.pc = "compare" => d.ve_bound
        /\ \A x \in d.saves : x % d.val_interval = 0
        /\ (d.pc = "compare" /\ d.i % d.val_interval # 0) => d.ve >= d.best_ve

C10_Witness ==
    /\ Started /\ d.pc = "compare" /\ d.val_interval = 2 /\ d.i = 3
    /\ d.saves = {0, 2} /\ d.ve = d.best_ve /\ d.ve < 10

====
